---------------------------- MODULE Spec2Model ----------------------------
(***************************************************************************)
(* A model of the EME container extractor (src/EXEME.py) and of the        *)
(* sliding-window decoders beside it (src/lzss.py).                        *)
(*                                                                         *)
(* Bytes are the integers 0..255, a byte string is a sequence of bytes     *)
(* (Python's index k is the sequence's index k+1), and a 32-bit word is    *)
(* the function of its 32 bits.  A Python call that may raise is one that  *)
(* yields a record [err, ...]: err = "" when the call returned, and the    *)
(* name of the exception otherwise.                                        *)
(*                                                                         *)
(* Three specifications share the module, one per component:               *)
(*   SpecCipher  EmeArchive.decrypt, one loop iteration per step           *)
(*   SpecLzss    LzssReader.unpack and LzssCoroutine.unpack, one token     *)
(*               (control byte, literal, match) per step                   *)
(*   Spec        EmeArchive.open followed by EmeArchive.extract, one       *)
(*               catalogue entry per step, as main() runs them             *)
(***************************************************************************)
EXTENDS Integers, Sequences, FiniteSets, TLC

VARIABLES
    dec,        \* EmeArchive.decrypt: its locals between two loop iterations
    lz,         \* a decoder of lzss.py: its locals between two tokens
    file,       \* the container file's bytes
    pc,         \* main(): "start", "opened", "failed" or "done"
    key,        \* EmeArchive.key: <<>> is None, else the 40 bytes read
    entries,    \* EmeArchive.entries
    reads,      \* the reads open() made of the container: <<offset, size>>
    stderr,     \* what was printed to sys.stderr, one record per line
    next_entry, \* extract(): index in entries of the next entry of the loop
    sink        \* what extract() did for each entry, in the order it did it

vars == <<dec, lz, file, pc, key, entries, reads, stderr, next_entry, sink>>
archVars == <<file, pc, key, entries, reads, stderr, next_entry, sink>>

\* a component that a specification does not run
LzIdle == [kind |-> "none"]

ArchIdle ==
    /\ file = <<>>
    /\ pc = "idle"
    /\ key = <<>>
    /\ entries = <<>>
    /\ reads = <<>>
    /\ stderr = <<>>
    /\ next_entry = 0
    /\ sink = <<>>

-----------------------------------------------------------------------------
(* Bytes and words *)
(* TLC's integers are 32-bit signed, so a 32-bit unsigned word is kept as *)
(* its 32 bits: a function from bit position 0..31 to 0 or 1           *)

Pow2(n) == 2 ^ n

\* (v >> n) & 1, for a byte or a small integer v
Bit(v, n) == (v \div Pow2(n)) % 2

\* a ^ b on two words
Xor32(a, b) == [n \in 0..31 |-> (a[n] + b[n]) % 2]

\* the byte made of bits 8m .. 8m+7 of word w
ByteOf(w, m) ==
    w[8 * m] + 2 * w[8 * m + 1] + 4 * w[8 * m + 2] + 8 * w[8 * m + 3]
    + 16 * w[8 * m + 4] + 32 * w[8 * m + 5] + 64 * w[8 * m + 6] + 128 * w[8 * m + 7]

\* w % m for a word w and 0 < m <= 65536 (Horner, the high byte first)
WordMod(w, m) ==
    ((((((ByteOf(w, 3) % m) * 256 + ByteOf(w, 2)) % m) * 256 + ByteOf(w, 1)) % m)
        * 256 + ByteOf(w, 0)) % m

\* data[a:b] of Python, a and b >= 0
Slice(data, a, b) ==
    LET hi == IF b < Len(data) THEN b ELSE Len(data)
    IN  IF a >= hi THEN <<>> ELSE SubSeq(data, a + 1, hi)

\* the exceptions of a call: Ok is a return, Raise an exception
Ok(data) == [err |-> "", data |-> data]

Raise(name, data) == [err |-> name, data |-> data]

\* struct.unpack_from("<I", data, j)[0], where the 4 bytes exist: bit n of
\* the word is bit n % 8 of byte j + n // 8
UnpackFrom(data, j) == [n \in 0..31 |-> Bit(data[j + 1 + (n \div 8)], n % 8)]

\* struct.pack("<I", w)
Pack32(w) == << ByteOf(w, 0), ByteOf(w, 1), ByteOf(w, 2), ByteOf(w, 3) >>

\* struct.pack_into("<I", data, j, w), where the 4 bytes exist
PackInto(data, j, w) ==
    SubSeq(data, 1, j) \o Pack32(w) \o SubSeq(data, j + 5, Len(data))

\* struct.unpack_from("<H", data, j)[0], where the 2 bytes exist
UnpackFrom16(data, j) == data[j + 1] + 256 * data[j + 2]

-----------------------------------------------------------------------------
(* EmeArchive.decrypt and its stages *)

RECURSIVE XorLoopCarry(_, _, _)
\* an opcode-1 loop that carries the word it read over as the next key
XorLoopCarry(data, j, k) ==
    IF j >= Len(data) THEN Ok(data)
    ELSE IF j + 4 > Len(data) THEN Raise("struct.error", data)
    ELSE LET v == UnpackFrom(data, j)
         IN  XorLoopCarry(PackInto(data, j, Xor32(v, k)), j + 4, v)

RECURSIVE XorLoop(_, _, _)
\* routine[i] == 1: every word ^ key.  unpack_from raises struct.error on a
\* last word of fewer than 4 bytes.
XorLoop(data, j, k) ==
    IF j >= Len(data) THEN Ok(data)
    ELSE IF j + 4 > Len(data) THEN Raise("struct.error", data)
    ELSE XorLoop(PackInto(data, j, Xor32(UnpackFrom(data, j), k)), j + 4, k)

RECURSIVE ChainLoopPlain(_, _, _)
\* an opcode-2 loop whose next key is the word it wrote, not the word it read
ChainLoopPlain(data, j, k) ==
    IF j >= Len(data) THEN Ok(data)
    ELSE IF j + 4 > Len(data) THEN Raise("struct.error", data)
    ELSE LET v == Xor32(UnpackFrom(data, j), k)
         IN  ChainLoopPlain(PackInto(data, j, v), j + 4, v)

RECURSIVE ChainLoop(_, _, _)
\* routine[i] == 2: word ^ key, and the word as read is the next word's key
ChainLoop(data, j, k) ==
    IF j >= Len(data) THEN Ok(data)
    ELSE IF j + 4 > Len(data) THEN Raise("struct.error", data)
    ELSE LET v == UnpackFrom(data, j)
         IN  ChainLoop(PackInto(data, j, Xor32(v, k)), j + 4, v)

RECURSIVE ShiftBits(_, _, _, _, _)
\* the loop of shift_value from bit b on.  Only shift % 32 is ever read, so
\* shift is kept modulo 32.
ShiftBits(val, k, b, shift, result) ==
    IF b = 32 THEN result
    ELSE LET s == (shift + WordMod(k, 32)) % 32
         IN  ShiftBits(val, k, b + 1, s,
                       IF val[b] = 1 THEN [result EXCEPT ![s] = 1] ELSE result)

shift_value(val, k) == ShiftBits(val, k, 0, 0, [n \in 0..31 |-> 0])

RECURSIVE ShiftLoop(_, _, _)
\* routine[i] == 4: every word through shift_value
ShiftLoop(data, j, k) ==
    IF j >= Len(data) THEN Ok(data)
    ELSE IF j + 4 > Len(data) THEN Raise("struct.error", data)
    ELSE ShiftLoop(PackInto(data, j, shift_value(UnpackFrom(data, j), k)), j + 4, k)

RECURSIVE TableLoop(_, _, _, _, _)
\* the loop of init_table from source byte n on; (x + key) % length is
\* computed from key % length
TableLoop(buffer, k, n, x, table) ==
    IF n = Len(buffer) THEN table
    ELSE LET y == (x + WordMod(k, Len(buffer))) % Len(buffer)
         IN  TableLoop(buffer, k, n + 1, y,
                       [table EXCEPT ![y + 1] = buffer[n + 1]])

\* routine[i] == 8: the bytes of the region scattered over a zeroed table
init_table(buffer, k) ==
    TableLoop(buffer, k, 0, 0, [n \in 1..Len(buffer) |-> 0])

\* the if/elif chain of one iteration: opcode op on the region with key k
Stage(op, data, k) ==
    CASE op = 1 -> XorLoop(data, 0, k)
      [] op = 2 -> ChainLoop(data, 0, k)
      [] op = 4 -> ShiftLoop(data, 0, k)
      [] op = 8 -> Ok(init_table(data, k))
      [] OTHER  -> Ok(data)

\* an iteration that takes the stage keys first to last
DecryptRoundAscending(data, routine, i, key_index) ==
    Stage(routine[i + 1], data, UnpackFrom(routine, Len(routine) - 4 - key_index + 8))

\* one iteration of the loop, key_index being already lowered by 4
DecryptRound(data, routine, i, key_index) ==
    Stage(routine[i + 1], data, UnpackFrom(routine, key_index))

RECURSIVE DecryptFrom(_, _, _, _)
RECURSIVE DecryptAfter(_, _, _, _)
\* iteration i has left r: an exception ends the loop, a return goes on
\* with i - 1
DecryptAfter(r, routine, i, key_index) ==
    IF r.err # "" THEN r ELSE DecryptFrom(r.data, routine, i - 1, key_index)

\* "for i in range(7, -1, -1)" from i down, on the view data
DecryptFrom(data, routine, i, key_index) ==
    IF i < 0 THEN Ok(data)
    ELSE DecryptAfter(DecryptRound(data, routine, i, key_index - 4),
                      routine, i, key_index - 4)

\* data is a memoryview of buffer[offset : offset + length]: what the loop
\* did to the view r.data, it did to the buffer
ThroughView(buffer, offset, r) ==
    [err  |-> r.err,
     data |-> SubSeq(buffer, 1, offset) \o r.data
              \o SubSeq(buffer, offset + Len(r.data) + 1, Len(buffer))]

\* decrypt(buffer, offset, length, routine): the buffer afterwards
decrypt(buffer, offset, length, routine) ==
    ThroughView(buffer, offset,
                DecryptFrom(Slice(buffer, offset, offset + length), routine, 7,
                            Len(routine)))

-----------------------------------------------------------------------------
(* The inputs of decrypt: regions and 40-byte key materials *)

MaxWords == 2

\* the contents a word of a region is drawn from: 0x80F0A55A and 1
WordVals == { <<90, 165, 240, 128>>, <<1, 0, 0, 0>> }

RECURSIVE Flatten(_)
Flatten(ws) == IF ws = <<>> THEN <<>> ELSE Head(ws) \o Flatten(Tail(ws))

\* regions of whole words, and the same with a last word of two bytes
Regions ==
    LET whole == UNION {[1..n -> WordVals] : n \in 0..MaxWords}
    IN  {Flatten(ws) \o t : ws \in whole, t \in {<<>>, <<17, 34>>}}

\* the opcodes of 40-byte key materials: the opcodes of two rounds are
\* chosen, the other six are an opcode decrypt does not know
Opcodes == {0, 1, 2, 4, 8}

\* the two rounds chosen, as indexes 0..7 of the key material
RoundPairs == { <<7, 6>>, <<7, 0>>, <<4, 3>>, <<1, 0>> }

OpVectors ==
    {[n \in 1..8 |-> IF n = pq[1] + 1 THEN a ELSE IF n = pq[2] + 1 THEN b ELSE 3] :
        pq \in RoundPairs, a \in Opcodes, b \in Opcodes}

\* the eight stage keys, little-endian: all different (5, 0x01020304,
\* 0x80000001, 3, 0xFFFFFFFF, 7, 0x0F0F0F0F, 0xDEADBEEF), or all 0xA5A5A5A5
StageKeys ==
    { << <<5, 0, 0, 0>>, <<4, 3, 2, 1>>, <<1, 0, 0, 128>>, <<3, 0, 0, 0>>,
         <<255, 255, 255, 255>>, <<7, 0, 0, 0>>, <<15, 15, 15, 15>>,
         <<239, 190, 173, 222>> >>,
      [n \in 1..8 |-> <<165, 165, 165, 165>>] }

\* 8 opcode bytes, then 8 little-endian dwords
Routine(ops, ks) ==
    [n \in 1..40 |->
        IF n <= 8 THEN ops[n] ELSE ks[((n - 9) \div 4) + 1][((n - 9) % 4) + 1]]

Routines == {Routine(ops, ks) : ops \in OpVectors, ks \in StageKeys}

-----------------------------------------------------------------------------
(* decrypt as a process: dec holds its locals between two iterations *)

DecIdle ==
    [data |-> <<>>, orig |-> <<>>, routine |-> <<>>, i |-> -1, key_index |-> 0,
     err |-> ""]

\* the locals on entry: data is the view, key_index = len(routine), i = 7
DecStart(data, routine) ==
    [data |-> data, orig |-> data, routine |-> routine, i |-> 7,
     key_index |-> Len(routine), err |-> ""]

\* one iteration of "for i in range(7, -1, -1)"; an exception ends the call
DecryptStep ==
    /\ dec.i >= 0
    /\ dec.err = ""
    /\ LET ki == dec.key_index - 4
           r  == DecryptRound(dec.data, dec.routine, dec.i, ki)
       IN  dec' = [dec EXCEPT !.key_index = ki,
                              !.data = r.data,
                              !.err = r.err,
                              !.i = IF r.err = "" THEN dec.i - 1 ELSE dec.i]
    /\ UNCHANGED <<lz, archVars>>

-----------------------------------------------------------------------------
(* The history frame of the decoders of lzss.py                            *)
(* bytearray([frame_fill] * frame_size) is kept as the positions written   *)
(* so far: a position outside DOMAIN frame still holds frame_fill.         *)

frame_size == 4096

frame_fill == 0

frame_init_pos == 4078

frame_mask == frame_size - 1

EmptyFrame == [p \in {} |-> frame_fill]

\* frame[p], 0 <= p < frame_size
FrameGet(frame, p) == IF p \in DOMAIN frame THEN frame[p] ELSE frame_fill

\* frame[p] = v, 0 <= p < frame_size
FramePut(frame, p, v) ==
    [q \in DOMAIN frame \cup {p} |-> IF q = p THEN v ELSE frame[q]]

\* x & frame_mask, frame_size being a power of two
Mask(x) == x % frame_size

\* ctl & (1 << bit) != 0
CtlBit(ctl, bit) == Bit(ctl, bit) = 1

\* ((hi & 0xf0) << 4) | lo
MatchOffset(lo, hi) == (hi \div 16) * 256 + lo

\* 3 + (hi & 0xF)
MatchCount(hi) == 3 + (hi % 16)

-----------------------------------------------------------------------------
(* LzssReader: the constructor, then unpack one token per step.  bit = 8   *)
(* is the test of "while remaining > 0", bit < 8 the body of "for bit".    *)

\* LzssReader(input_stream, input_length, output_length) on a stream holding
\* the bytes stream, and the locals of unpack on entry
ReaderStart(stream, input_length, output_length) ==
    [kind |-> "reader",
     input |-> Slice(stream, 0, input_length), ipos |-> 0,
     size |-> input_length,
     output |-> [n \in 1..output_length |-> 0],
     dst |-> 0, frame |-> EmptyFrame, frame_pos |-> frame_init_pos,
     remaining |-> input_length, ctl |-> 0, bit |-> 8,
     status |-> "run", err |-> ""]

ReaderReturn(st) == [st EXCEPT !.status = "done"]

ReaderRaise(st, name) == [st EXCEPT !.status = "error", !.err = name]

\* frame[frame_pos] = v; frame_pos = (frame_pos + 1) & frame_mask;
\* self.output[dst] = v; dst += 1.  A dst outside the bytearray raises.
ReaderEmit(st, v) ==
    IF st.dst >= Len(st.output)
    THEN ReaderRaise([st EXCEPT !.frame = FramePut(st.frame, st.frame_pos, v),
                                !.frame_pos = Mask(st.frame_pos + 1)],
                     "IndexError: bytearray index out of range")
    ELSE [st EXCEPT !.frame = FramePut(st.frame, st.frame_pos, v),
                    !.frame_pos = Mask(st.frame_pos + 1),
                    !.output = [st.output EXCEPT ![st.dst + 1] = v],
                    !.dst = st.dst + 1]

RECURSIVE ReaderCopyUnchecked(_, _, _)
\* the copy loop without its test of dst
ReaderCopyUnchecked(st, offset, n) ==
    IF n = 0 \/ st.status # "run" THEN st
    ELSE ReaderCopyUnchecked(ReaderEmit(st, FrameGet(st.frame, offset)),
                             Mask(offset + 1), n - 1)

RECURSIVE ReaderCopy(_, _, _)
\* "for _ in range(3 + (hi & 0xF))" with n iterations left
ReaderCopy(st, offset, n) ==
    IF n = 0 \/ st.status # "run" THEN st
    ELSE IF st.dst >= Len(st.output) THEN st
    ELSE ReaderCopy(ReaderEmit(st, FrameGet(st.frame, offset)),
                    Mask(offset + 1), n - 1)

\* the test of the while loop and the read of a control byte
ReaderControl ==
    /\ lz.kind = "reader"
    /\ lz.status = "run"
    /\ lz.bit = 8
    /\ lz' = IF lz.remaining <= 0 THEN ReaderReturn(lz)
             ELSE IF lz.ipos >= Len(lz.input)
             THEN ReaderRaise(lz, "IndexError: index out of range")
             ELSE [lz EXCEPT !.ctl = lz.input[lz.ipos + 1],
                             !.ipos = lz.ipos + 1,
                             !.remaining = lz.remaining - 1,
                             !.bit = 0]
    /\ UNCHANGED <<dec, archVars>>

\* "if dst >= len(self.output): return"
ReaderFull ==
    /\ lz.kind = "reader"
    /\ lz.status = "run"
    /\ lz.bit < 8
    /\ lz.dst >= Len(lz.output)
    /\ lz' = ReaderReturn(lz)
    /\ UNCHANGED <<dec, archVars>>

\* a set bit of the control byte: a literal
ReaderLiteral ==
    /\ lz.kind = "reader"
    /\ lz.status = "run"
    /\ lz.bit < 8
    /\ lz.dst < Len(lz.output)
    /\ CtlBit(lz.ctl, lz.bit)
    /\ lz' = IF lz.remaining = 0 THEN ReaderReturn(lz)
             ELSE IF lz.ipos >= Len(lz.input)
             THEN ReaderRaise(lz, "IndexError: index out of range")
             ELSE ReaderEmit([lz EXCEPT !.ipos = lz.ipos + 1,
                                        !.remaining = lz.remaining - 1,
                                        !.bit = lz.bit + 1],
                             lz.input[lz.ipos + 1])
    /\ UNCHANGED <<dec, archVars>>

\* a clear bit of the control byte: a match
ReaderMatch ==
    /\ lz.kind = "reader"
    /\ lz.status = "run"
    /\ lz.bit < 8
    /\ lz.dst < Len(lz.output)
    /\ ~CtlBit(lz.ctl, lz.bit)
    /\ lz' = IF lz.remaining < 2 THEN ReaderReturn(lz)
             ELSE IF lz.ipos + 2 > Len(lz.input)
             THEN ReaderRaise([lz EXCEPT !.ipos = Len(lz.input)],
                              "ValueError: not enough values to unpack")
             ELSE LET lo == lz.input[lz.ipos + 1]
                      hi == lz.input[lz.ipos + 2]
                  IN  ReaderCopy([lz EXCEPT !.ipos = lz.ipos + 2,
                                            !.remaining = lz.remaining - 2,
                                            !.bit = lz.bit + 1],
                                 MatchOffset(lo, hi), MatchCount(hi))
    /\ UNCHANGED <<dec, archVars>>

-----------------------------------------------------------------------------
(* LzssCoroutine: initialize, then the generator unpack one token per      *)
(* step.  left > 0 is a generator suspended inside the copy loop of a      *)
(* match, with left iterations to go from history position offset.         *)

\* LzssCoroutine() initialised on a stream holding the bytes stream, its
\* length attribute set to length, and the locals of unpack on entry
CoroutineStart(stream, length) ==
    [kind |-> "coroutine",
     input |-> stream, ipos |-> 0,
     buffer |-> <<>>, pos |-> 0, length |-> length,
     frame |-> EmptyFrame, frame_pos |-> frame_init_pos,
     ctl |-> 0, bit |-> 8, offset |-> 0, left |-> 0,
     status |-> "run", yielded |-> <<>>]

CoReturn(st) == [st EXCEPT !.status = "returned"]

\* frame[frame_pos & frame_mask] = v; frame_pos += 1; self.buffer.append(v);
\* self.pos += 1; self.length -= 1; if self.length == 0: yield self.pos
CoEmit(st, v) ==
    LET t == [st EXCEPT !.frame = FramePut(st.frame, Mask(st.frame_pos), v),
                        !.frame_pos = st.frame_pos + 1,
                        !.buffer = Append(st.buffer, v),
                        !.pos = st.pos + 1,
                        !.length = st.length - 1]
    IN  IF t.length = 0
        THEN [t EXCEPT !.status = "suspended", !.yielded = Append(st.yielded, t.pos)]
        ELSE t

RECURSIVE CoCopyNoHistory(_)
\* a copy loop that does not store the bytes it copies into the frame
CoCopyNoHistory(st) ==
    IF st.left = 0 THEN [st EXCEPT !.bit = st.bit + 1]
    ELSE IF st.status # "run" THEN st
    ELSE LET e == CoEmit([st EXCEPT !.offset = st.offset + 1,
                                    !.left = st.left - 1],
                         FrameGet(st.frame, Mask(st.offset)))
         IN  CoCopyNoHistory([e EXCEPT !.frame = st.frame])

RECURSIVE CoCopy(_)
\* "for _ in range(3 + (hi & 0xF))" with st.left iterations left: it runs
\* to its end, where the next bit is taken, or to a yield
CoCopy(st) ==
    IF st.left = 0 THEN [st EXCEPT !.bit = st.bit + 1]
    ELSE IF st.status # "run" THEN st
    ELSE CoCopy(CoEmit([st EXCEPT !.offset = st.offset + 1,
                                  !.left = st.left - 1],
                       FrameGet(st.frame, Mask(st.offset))))

\* "while True": the read of a control byte
CoControlStep(st) ==
    IF st.ipos >= Len(st.input) THEN CoReturn(st)
    ELSE [st EXCEPT !.ctl = st.input[st.ipos + 1],
                    !.ipos = st.ipos + 1,
                    !.bit = 0]

\* a set bit of the control byte: a literal
CoLiteralStep(st) ==
    IF st.ipos >= Len(st.input) THEN CoReturn(st)
    ELSE CoEmit([st EXCEPT !.ipos = st.ipos + 1, !.bit = st.bit + 1],
                st.input[st.ipos + 1])

\* a clear bit of the control byte: a match
CoMatchStep(st) ==
    IF st.ipos >= Len(st.input) THEN CoReturn(st)
    ELSE IF st.ipos + 1 >= Len(st.input)
    THEN CoReturn([st EXCEPT !.ipos = st.ipos + 1])
    ELSE LET lo == st.input[st.ipos + 1]
             hi == st.input[st.ipos + 2]
         IN  CoCopy([st EXCEPT !.ipos = st.ipos + 2,
                               !.offset = MatchOffset(lo, hi),
                               !.left = MatchCount(hi)])

CoControl ==
    /\ lz.kind = "coroutine"
    /\ lz.status = "run"
    /\ lz.left = 0
    /\ lz.bit = 8
    /\ lz' = CoControlStep(lz)
    /\ UNCHANGED <<dec, archVars>>

CoLiteral ==
    /\ lz.kind = "coroutine"
    /\ lz.status = "run"
    /\ lz.left = 0
    /\ lz.bit < 8
    /\ CtlBit(lz.ctl, lz.bit)
    /\ lz' = CoLiteralStep(lz)
    /\ UNCHANGED <<dec, archVars>>

CoMatch ==
    /\ lz.kind = "coroutine"
    /\ lz.status = "run"
    /\ lz.left = 0
    /\ lz.bit < 8
    /\ ~CtlBit(lz.ctl, lz.bit)
    /\ lz' = CoMatchStep(lz)
    /\ UNCHANGED <<dec, archVars>>

\* the generator, resumed inside a match, goes on with its copy loop
CoMatchRest ==
    /\ lz.kind = "coroutine"
    /\ lz.status = "run"
    /\ lz.left > 0
    /\ lz' = CoCopy(lz)
    /\ UNCHANGED <<dec, archVars>>

\* next() on the suspended generator: it goes on after its yield
CoResume ==
    /\ lz.kind = "coroutine"
    /\ lz.status = "suspended"
    /\ lz' = [lz EXCEPT !.status = "run"]
    /\ UNCHANGED <<dec, archVars>>

-----------------------------------------------------------------------------
(* decompress, which EXEME.py imports from lzss and calls with the stored  *)
(* bytes alone.  lzss.py defines no decompress; it is taken to be the      *)
(* sliding-window decode that stops when its input is exhausted: the       *)
(* generator of LzssCoroutine run to its return.                           *)

\* the generator's next token, or its resumption after a yield
CoStep(st) ==
    IF st.status = "suspended" THEN [st EXCEPT !.status = "run"]
    ELSE IF st.left > 0 THEN CoCopy(st)
    ELSE IF st.bit = 8 THEN CoControlStep(st)
    ELSE IF CtlBit(st.ctl, st.bit) THEN CoLiteralStep(st)
    ELSE CoMatchStep(st)

RECURSIVE CoRun(_)
\* the generator resumed until it returns
CoRun(st) == IF st.status = "returned" THEN st ELSE CoRun(CoStep(st))

\* decompress(data)[0]
decompress(data) == CoRun(CoroutineStart(data, 0)).buffer

-----------------------------------------------------------------------------
(* EmeArchive.open *)

\* b'RRED'
SIGNATURE == <<82, 82, 69, 68>>

\* b'ATA '
SIGNATURE2 == <<65, 84, 65, 32>>

\* f.seek(pos); f.read(n), for n >= 0
FileRead(f, pos, n) == Slice(f, pos, pos + n)

\* f.seek(pos); f.read(n): -1 reads to the end of the file, and a buffered
\* reader refuses any other negative length
FileReadSigned(f, pos, n) ==
    IF n >= 0 THEN Ok(FileRead(f, pos, n))
    ELSE IF n = -1 THEN Ok(Slice(f, pos, Len(f)))
    ELSE Raise("ValueError", <<>>)

\* struct.unpack('<I', b)[0] as an integer (the inputs keep it below 2^31)
U32(b, j) == b[j + 1] + 256 * b[j + 2] + 65536 * b[j + 3] + 16777216 * b[j + 4]

\* get_null_terminated_string(data, offset, max_length), before its decode
\* (the names of the inputs are ASCII, which decodes byte for byte)
get_null_terminated_string(data, offset, max_length) ==
    LET nuls == {e \in offset..(offset + max_length - 1) :
                    e < Len(data) /\ data[e + 1] = 0}
        end  == IF nuls = {} THEN offset + max_length
                ELSE CHOOSE e \in nuls : \A x \in nuls : e <= x
    IN  Slice(data, offset, end)

\* an lzss_init_pos taken as the distance from the start of the frame
InitPosNoWrap(lzss_frame_size, lzss_init_pos) ==
    IF lzss_frame_size # 0 THEN lzss_frame_size - lzss_init_pos ELSE lzss_init_pos

\* "if lzss_frame_size != 0: lzss_init_pos = (lzss_frame_size -
\* lzss_init_pos) % lzss_frame_size"
InitPos(lzss_frame_size, lzss_init_pos) ==
    IF lzss_frame_size # 0
    THEN (lzss_frame_size - lzss_init_pos) % lzss_frame_size
    ELSE lzss_init_pos

\* the EmEntry parsed from the decrypted slot at current_offset
ParseEntry(index_data, current_offset) ==
    LET lzss_frame_size == UnpackFrom16(index_data, current_offset + 64)
        lzss_init_pos   == UnpackFrom16(index_data, current_offset + 66)
        size            == U32(index_data, current_offset + 76)
        unpacked_size   == U32(index_data, current_offset + 80)
    IN  [name            |-> get_null_terminated_string(index_data, current_offset, 64),
         offset          |-> U32(index_data, current_offset + 84),
         size            |-> size,
         unpacked_size   |-> unpacked_size,
         lzss_frame_size |-> lzss_frame_size,
         lzss_init_pos   |-> InitPos(lzss_frame_size, lzss_init_pos),
         sub_type        |-> U32(index_data, current_offset + 72),
         is_packed       |-> unpacked_size # size]

RECURSIVE ParseEntries(_, _, _, _, _)
RECURSIVE ParseDecrypted(_, _, _, _, _)
\* the rest of an iteration, d being what decrypt did to index_data: the
\* entry is parsed and appended, current_offset += 0x60
ParseDecrypted(d, current_offset, left, routine, acc) ==
    IF d.err # "" THEN [err |-> d.err, entries |-> acc]
    ELSE ParseEntries(d.data, current_offset + 96, left - 1, routine,
                      Append(acc, ParseEntry(d.data, current_offset)))

\* "for _ in range(entry_count)" with left iterations to go
ParseEntries(index_data, current_offset, left, routine, acc) ==
    IF left = 0 THEN [err |-> "", entries |-> acc]
    ELSE ParseDecrypted(decrypt(index_data, current_offset, 96, routine),
                        current_offset, left, routine, acc)

\* a sanity check that turns 10000 entries away too
CountRefusedFrom10000(entry_count) == entry_count >= 10000

\* "if entry_count > 10000: return False"
CountRefused(entry_count) == entry_count > 10000

\* open() returns False after the reads rs, having printed err if any
Refused(rs, err) ==
    [ok |-> FALSE, key |-> <<>>, entries |-> <<>>, err |-> err, reads |-> rs]

\* open() after its loop over the index: True if no slot raised
Parsed(routine, parsed, rs) ==
    [ok      |-> parsed.err = "",
     key     |-> routine,
     entries |-> parsed.entries,
     err     |-> parsed.err,
     reads   |-> rs]

\* open() from its sanity check on, after the reads rs
ReadIndex(f, file_size, entry_count, rs) ==
    LET index_size   == entry_count * 96
        index_offset == file_size - 4 - index_size
    IN  IF CountRefused(entry_count) THEN Refused(rs, "")
        ELSE IF index_offset - 40 < 0 THEN Refused(rs, "OSError")
        ELSE Parsed(FileRead(f, index_offset - 40, 40),
                    ParseEntries(FileRead(f, index_offset, index_size), 0,
                                 entry_count, FileRead(f, index_offset - 40, 40),
                                 <<>>),
                    rs \o << <<index_offset - 40, 40>>,
                             <<index_offset, index_size>> >>)

\* what open() returns (ok), leaves in self.key and self.entries, reads of
\* the file, and prints of an exception it caught (err)
OpenResult(f) ==
    IF FileRead(f, 0, 4) # SIGNATURE THEN Refused(<< <<0, 4>> >>, "")
    ELSE IF FileRead(f, 4, 4) # SIGNATURE2
    THEN Refused(<< <<0, 4>>, <<4, 4>> >>, "")
    ELSE ReadIndex(f, Len(f), U32(FileRead(f, Len(f) - 4, 4), 0),
                   << <<0, 4>>, <<4, 4>>, <<Len(f) - 4, 4>> >>)

\* main(): archive.open(), and sys.exit(1) when it fails
Open ==
    /\ pc = "start"
    /\ \E r \in {OpenResult(file)} :
           /\ pc' = IF r.ok THEN "opened" ELSE "failed"
           /\ key' = r.key
           /\ entries' = r.entries
           /\ reads' = r.reads
           /\ stderr' = IF r.err # ""
                        THEN Append(stderr, <<"Error opening archive", r.err>>)
                        ELSE stderr
    /\ next_entry' = 1
    /\ UNCHANGED <<file, sink, dec, lz>>

-----------------------------------------------------------------------------
(* EmeArchive.extract, one iteration of "for entry in self.entries" per    *)
(* step                                                                    *)

\* out.write(decompressed_part1[:part1_size]); out.write(decompressed_part2)
CombineParts(decompressed_part1, part1_size, decompressed_part2) ==
    Slice(decompressed_part1, 0, part1_size) \o decompressed_part2

\* the split branch: the bytes after the first packed_size are read first,
\* whatever read() does of entry.size - packed_size
SplitScript(f, entry, packed_size, part1_size) ==
    LET compressed_part1 ==
            FileReadSigned(f, entry.offset + 12 + packed_size,
                           entry.size - packed_size)
        compressed_part2 == FileRead(f, entry.offset + 12, packed_size)
    IN  IF compressed_part1.err # "" THEN Raise(compressed_part1.err, <<>>)
        ELSE Ok(CombineParts(decompress(compressed_part1.data), part1_size,
                             decompress(compressed_part2)))

\* _extract_script from "if entry.lzss_frame_size == 0" on, d being what
\* decrypt did to the 12 bytes read at entry.offset
ScriptBody(f, entry, d) ==
    IF d.err # "" THEN Raise(d.err, <<>>)
    ELSE IF entry.lzss_frame_size = 0
    THEN Ok(d.data \o FileRead(f, entry.offset + 12, entry.size))
    ELSE IF Len(d.data) < 8 THEN Raise("struct.error", <<>>)
    ELSE IF U32(d.data, 4) # 0 /\ U32(d.data, 4) < entry.unpacked_size
    THEN SplitScript(f, entry, U32(d.data, 0), entry.unpacked_size - U32(d.data, 4))
    ELSE Ok(decompress(FileRead(f, entry.offset + 12, entry.size)))

\* _extract_script: the bytes written to output_path, or the exception
ExtractScriptResult(f, entry, routine) ==
    ScriptBody(f, entry, decrypt(FileRead(f, entry.offset, 12), 0, 12, routine))

\* _extract_regular: the bytes written to output_path
ExtractRegularResult(f, entry) ==
    LET data == FileRead(f, entry.offset, entry.size)
    IN  Ok(IF entry.is_packed THEN decompress(data) ELSE data)

\* an extract whose loop ends at the first entry that raises
NextAfterAbort(k, err, n) == IF err # "" THEN n + 1 ELSE k + 1

\* "except Exception as e: print(...)" inside the loop: whatever entry k
\* did, the loop goes on with entry k + 1 of the n entries
NextAfter(k, err, n) == k + 1

\* the body of the loop for entry next_entry, given what its extraction did
Extracted(r) ==
    LET entry == entries[next_entry]
    IN  /\ sink' = Append(sink, [index |-> next_entry, name |-> entry.name,
                                 err |-> r.err, data |-> r.data])
        /\ stderr' = IF r.err # ""
                     THEN Append(stderr, <<"Error extracting", entry.name, r.err>>)
                     ELSE stderr
        /\ next_entry' = NextAfter(next_entry, r.err, Len(entries))
        /\ UNCHANGED <<file, pc, key, entries, reads, dec, lz>>

\* "if entry.sub_type == 3: self._extract_script(f, entry, output_path)"
ExtractScript ==
    /\ pc = "opened"
    /\ next_entry <= Len(entries)
    /\ entries[next_entry].sub_type = 3
    /\ Extracted(ExtractScriptResult(file, entries[next_entry], key))

\* "else: self._extract_regular(f, entry, output_path)"
ExtractRegular ==
    /\ pc = "opened"
    /\ next_entry <= Len(entries)
    /\ entries[next_entry].sub_type # 3
    /\ Extracted(ExtractRegularResult(file, entries[next_entry]))

\* the loop is over: main() prints "Extraction complete!"
ExtractDone ==
    /\ pc = "opened"
    /\ next_entry > Len(entries)
    /\ pc' = "done"
    /\ UNCHANGED <<file, key, entries, reads, stderr, next_entry, sink, dec, lz>>

-----------------------------------------------------------------------------
(* The container files open() is run on                                   *)
(*   0   "RRED" "ATA "                                                     *)
(*   8   "ABC", stored as it is                                            *)
(*   11  a stream of three literals and a match of 5: 8 bytes decoded      *)
(*   17  a script record: its 12-byte header, a first stream of 5 bytes    *)
(*       (4 literals) and a second stream of 6 bytes (8 bytes decoded)     *)
(*   40  the 40-byte key material                                          *)
(*   80  the index, 96 bytes per slot, then the 4-byte entry count         *)
(* Slots and script header are stored as the key material decrypts them.   *)

MaxEntries == 2

\* n as 4 and as 2 little-endian bytes
LE32(n) == << n % 256, (n \div 256) % 256, (n \div 65536) % 256, n \div 16777216 >>

LE16(n) == << n % 256, n \div 256 >>

Zeros(n) == [k \in 1..n |-> 0]

\* the key materials: no opcode decrypt knows, or one opcode-1 round (round
\* 5) with the key 0x22113C5A
KeyKinds == {"none", "xor"}

XorStageKey == <<90, 60, 17, 34>>

KeyMaterial(kind) ==
    IF kind = "xor"
    THEN <<0, 0, 0, 0, 0, 1, 0, 0>> \o Zeros(20) \o XorStageKey \o Zeros(8)
    ELSE <<0, 16, 3, 0, 5, 0, 0, 255>> \o Zeros(20) \o XorStageKey \o Zeros(8)

\* the stored form of a region of whole words that decrypts to plain
Stored(plain, kind) ==
    IF kind = "xor" THEN XorLoop(plain, 0, UnpackFrom(XorStageKey, 0)).data ELSE plain

\* the plain script headers <<first dword, second dword>>: the size of the
\* first stream and the raw size of its segment
ScriptHeaders == { <<5, 4>>, <<5, 3>>, <<5, 0>>, <<5, 30>>, <<12, 4>>, <<13, 4>> }

DataRegion(hdr, kind) ==
    <<65, 66, 67>>
    \o <<7, 65, 66, 67, 0, 2>>
    \o Stored(LE32(hdr[1]) \o LE32(hdr[2]) \o Zeros(4), kind)
    \o <<15, 97, 98, 99, 100>>
    \o <<7, 65, 66, 67, 0, 2>>

\* the size of a file of n slots
FileSize(n) == 8 + 32 + 40 + 96 * n + 4

\* the descriptors a slot is drawn from, in a file of file_size bytes
Descriptors(file_size) ==
    { \* "a.txt": the 3 bytes at 8, stored raw
      [name |-> <<97, 46, 116, 120, 116>>, frame |-> 0, init |-> 0,
       sub |-> 0, size |-> 3, unpacked |-> 3, offset |-> 8],
      \* "b": the stream at 11, whose 8 decoded bytes are its raw size
      [name |-> <<98>>, frame |-> 4096, init |-> 18,
       sub |-> 0, size |-> 6, unpacked |-> 8, offset |-> 11],
      \* "c": the stream at 11 with a raw size of 5
      [name |-> <<99>>, frame |-> 4096, init |-> 0,
       sub |-> 1, size |-> 6, unpacked |-> 5, offset |-> 11],
      \* "s": the script record at 17, compressed, raw size 10
      [name |-> <<115>>, frame |-> 4096, init |-> 4114,
       sub |-> 3, size |-> 11, unpacked |-> 10, offset |-> 17],
      \* "u": the script record at 17, not compressed
      [name |-> <<117>>, frame |-> 0, init |-> 7,
       sub |-> 3, size |-> 11, unpacked |-> 11, offset |-> 17],
      \* "t": a script record whose header is the last 6 bytes of the file
      [name |-> <<116>>, frame |-> 4096, init |-> 18,
       sub |-> 3, size |-> 11, unpacked |-> 10, offset |-> file_size - 6],
      \* "e": 3 bytes stored past the end of the file
      [name |-> <<101>>, frame |-> 0, init |-> 0,
       sub |-> 0, size |-> 3, unpacked |-> 3, offset |-> file_size + 5],
      \* a name of 64 bytes and no NUL, a frame of 16 bytes, a raw size of 4
      \* for 3 stored bytes
      [name |-> [k \in 1..64 |-> 110], frame |-> 16, init |-> 37,
       sub |-> 2, size |-> 3, unpacked |-> 4, offset |-> 8] }

\* the 96 plain bytes of a slot
Slot(d) ==
    d.name \o Zeros(64 - Len(d.name))
    \o LE16(d.frame) \o LE16(d.init) \o Zeros(4)
    \o LE32(d.sub) \o LE32(d.size) \o LE32(d.unpacked) \o LE32(d.offset)
    \o Zeros(8)

RECURSIVE Index(_, _)
Index(ds, kind) ==
    IF ds = <<>> THEN <<>> ELSE Stored(Slot(Head(ds)), kind) \o Index(Tail(ds), kind)

\* a file of the slots ds whose last 4 bytes say entry_count
Container(ds, hdr, kind, entry_count) ==
    SIGNATURE \o SIGNATURE2 \o DataRegion(hdr, kind) \o KeyMaterial(kind)
    \o Index(ds, kind) \o LE32(entry_count)

\* the well-formed files: up to MaxEntries slots, the count that of the
\* slots, and the script header that of a record whose first segment has
\* the raw size it decodes to
GoodFiles ==
    UNION { {Container(ds, <<5, 4>>, kind, n) :
                ds \in [1..n -> Descriptors(FileSize(n))], kind \in KeyKinds} :
            n \in 0..MaxEntries }

\* the files of one script record, under every script header
ScriptFiles ==
    {Container(<<d>>, hdr, kind, 1) :
        d \in {e \in Descriptors(FileSize(1)) : e.sub = 3},
        hdr \in ScriptHeaders, kind \in KeyKinds}

\* one file of one slot per entry count at and around the ceiling, and the
\* same ceiling counts on a file that holds no key material at all
CountFiles ==
    {Container(ds, <<5, 4>>, kind, c) :
        ds \in [1..1 -> Descriptors(FileSize(1))], kind \in KeyKinds,
        c \in {9999, 10000, 10001, 16777216, 2147483647}}
    \cup {SIGNATURE \o SIGNATURE2 \o LE32(c) : c \in {0, 10000, 10001}}

\* files that are not containers: empty, cut short, a wrong magic
BadFiles ==
    { <<>>, <<82, 82>>, SIGNATURE, SIGNATURE \o <<65, 84>>, SIGNATURE \o SIGNATURE2,
      <<82, 82, 69, 88>> \o Tail(Tail(Tail(Tail(Container(<<>>, <<5, 4>>, "none", 0))))),
      SIGNATURE \o <<65, 84, 65, 0>>
          \o Tail(Tail(Tail(Tail(Tail(Tail(Tail(Tail(
                 Container(<<>>, <<5, 4>>, "xor", 0))))))))) }

Files == GoodFiles \cup ScriptFiles \cup CountFiles \cup BadFiles

-----------------------------------------------------------------------------
(* The inputs of the decoders *)

MaxInLen == 3

MaxOut == 8

\* the bytes of the short streams: as control bytes, all matches, one
\* literal in eight, three literals then matches; as the second byte of a
\* match, counts 3, 5, 10 and 5 with the offset at 0x0.. or 0xF..
StreamBytes == {0, 2, 7, 238, 242}

\* three literals, then a match of 5 bytes at offset 0, then two bytes more
ThreeLiteralsMatch5 == <<7, 65, 66, 67, 0, 2, 255, 65>>

\* one literal, then a match of 7 bytes at 0xFEE, the byte just written
SelfOverlap == <<1, 65, 238, 244>>

\* eight literals, a second control byte, two literals and a match of 18
\* bytes at 0xFED that takes the write cursor around the end of the frame
TwoGroups == <<255, 97, 98, 99, 100, 101, 102, 103, 104, 3, 105, 106, 237, 255>>

\* only matches, of 18 bytes each, at offset 0
LongMatches == <<0, 0, 15, 0, 15>>

Prefixes(stream) == {SubSeq(stream, 1, n) : n \in 0..Len(stream)}

\* every stream of at most MaxInLen bytes of StreamBytes, and every prefix
\* of the streams above
Streams ==
    UNION {[1..n -> StreamBytes] : n \in 0..MaxInLen}
    \cup Prefixes(ThreeLiteralsMatch5) \cup Prefixes(SelfOverlap)
    \cup Prefixes(TwoGroups) \cup Prefixes(LongMatches)

-----------------------------------------------------------------------------
(* SpecLzss: either decoder on every stream of Streams; the reader with an *)
(* input_length of the stream's length or one more, and an output_length   *)
(* up to MaxOut; the coroutine with its length attribute at 0 (as          *)
(* __init__ leaves it) or set up to MaxOut.                                *)

InitLzss ==
    /\ \E stream \in Streams, n \in 0..MaxOut :
          \/ \E more \in {0, 1} : lz = ReaderStart(stream, Len(stream) + more, n)
          \/ lz = CoroutineStart(stream, n)
    /\ dec = DecIdle
    /\ ArchIdle

NextLzss ==
    \/ ReaderControl
    \/ ReaderFull
    \/ ReaderLiteral
    \/ ReaderMatch
    \/ CoControl
    \/ CoLiteral
    \/ CoMatch
    \/ CoMatchRest
    \/ CoResume

SpecLzss == InitLzss /\ [][NextLzss]_vars

\* C3: the length-bounded decode never produces more than N bytes.  The
\* reader, whose N is output_length, never moves dst past N, never writes
\* past its N-byte output (no write raises), and leaves the bytes from dst
\* on as the constructor made them; the coroutine asked for N >= 1 bytes
\* has produced fewer than N until it yields, and exactly N when it yields.
C3_BoundedDecodeNeverExceedsLength ==
    /\ lz.kind = "reader" =>
          /\ lz.dst <= Len(lz.output)
          /\ lz.err # "IndexError: bytearray index out of range"
          /\ \A n \in (lz.dst + 1)..Len(lz.output) : lz.output[n] = 0
    /\ (lz.kind = "coroutine" /\ lz.pos + lz.length >= 1) =>
          /\ lz.yielded = <<>> => Len(lz.buffer) < lz.pos + lz.length
          /\ (lz.status = "suspended" /\ Len(lz.yielded) = 1) =>
                /\ Len(lz.buffer) = lz.yielded[1]
                /\ lz.length = 0

\* C3's case: the reader stopped inside the match of ThreeLiteralsMatch5,
\* 2 bytes into its 5, with input left
C3_Witness ==
    /\ lz.kind = "reader"
    /\ lz.input = ThreeLiteralsMatch5
    /\ Len(lz.output) = 5
    /\ lz.status = "done"
    /\ lz.dst = 5
    /\ lz.output = <<65, 66, 67, 0, 0>>
    /\ lz.ipos < Len(lz.input)

-----------------------------------------------------------------------------
(* SpecCipher: decrypt on every region of Regions with every key material  *)
(* of Routines                                                             *)

InitCipher ==
    /\ \E data \in Regions, routine \in Routines : dec = DecStart(data, routine)
    /\ lz = LzIdle
    /\ ArchIdle

NextCipher == DecryptStep

SpecCipher == InitCipher /\ [][NextCipher]_vars

\* the opcodes decrypt knows
KnownOps == {1, 2, 4, 8}

\* the opcode and the stage key the claims give round n: key[n] and the
\* dword at key[8+4n .. 8+4n+4)
RoundOp(routine, n) == routine[n + 1]

RoundKey(routine, n) == UnpackFrom(routine, 8 + 4 * n)

RECURSIVE RoundsDownTo(_, _, _)
\* rounds 7, 6, .., n in this order, each on the buffer the one before left
RoundsDownTo(data, routine, n) ==
    IF n > 7 THEN Ok(data)
    ELSE LET before == RoundsDownTo(data, routine, n + 1)
         IN  IF before.err # "" THEN before
             ELSE Stage(RoundOp(routine, n), before.data, RoundKey(routine, n))

\* C5: at every point of decrypt, the region is the composition of the
\* rounds 7 down to i+1 run so far, round n with opcode key[n] and the
\* dword at 8+4n, each on the buffer the round before left; a round whose
\* opcode is not 1, 2, 4 or 8 leaves the region as it was and raises
\* nothing, so a key with no known opcode leaves the region unchanged.
C5_DecryptIsRoundsSevenDownToZero ==
    /\ dec.err = "" =>
          RoundsDownTo(dec.orig, dec.routine, dec.i + 1) = Ok(dec.data)
    /\ dec.err # "" =>
          /\ RoundsDownTo(dec.orig, dec.routine, dec.i).err = dec.err
          /\ RoundOp(dec.routine, dec.i) \in KnownOps
    /\ (dec.err = "" /\ dec.i < 7 /\ RoundOp(dec.routine, dec.i + 1) \notin KnownOps) =>
          RoundsDownTo(dec.orig, dec.routine, dec.i + 2) = Ok(dec.data)
    /\ (\A n \in 0..7 : RoundOp(dec.routine, n) \notin KnownOps) =>
          dec.err = "" /\ dec.data = dec.orig

\* C5's case: decrypt ran its eight rounds, two of them with a known opcode
\* and the others without, on a region of two words that they changed
C5_Witness ==
    /\ dec.i = -1
    /\ dec.err = ""
    /\ Len(dec.orig) = 8
    /\ dec.data # dec.orig
    /\ RoundOp(dec.routine, 7) = 2
    /\ RoundOp(dec.routine, 0) = 8
    /\ RoundOp(dec.routine, 3) \notin KnownOps
    /\ RoundKey(dec.routine, 7) # RoundKey(dec.routine, 0)

\* the only known opcodes of the key are two opcode-1 rounds with one key
TwoXorRounds(routine) ==
    \E p \in 0..7, q \in 0..7 :
        /\ p < q
        /\ RoundOp(routine, p) = 1
        /\ RoundOp(routine, q) = 1
        /\ RoundKey(routine, p) = RoundKey(routine, q)
        /\ \A n \in 0..7 \ {p, q} : RoundOp(routine, n) \notin KnownOps

\* the key of the opcode-1 rounds of such a key material
XorKey(routine) == RoundKey(routine, CHOOSE p \in 0..7 : RoundOp(routine, p) = 1)

\* the opcode-1 rounds among 7 .. i+1, the rounds run so far
XorRoundsRun == Cardinality({n \in (dec.i + 1)..7 : RoundOp(dec.routine, n) = 1})

\* C6: the opcode-1 stage applied twice with the same key to a region of
\* whole words gives back the original bytes, and applied once it gives the
\* original with every word XORed with the key.
C6_XorStageIsInvolution ==
    (TwoXorRounds(dec.routine) /\ Len(dec.orig) % 4 = 0) =>
        /\ dec.err = ""
        /\ XorRoundsRun = 2 => dec.data = dec.orig
        /\ XorRoundsRun = 1 =>
              \A w \in 0..((Len(dec.orig) \div 4) - 1) :
                  UnpackFrom(dec.data, 4 * w) =
                      Xor32(UnpackFrom(dec.orig, 4 * w), XorKey(dec.routine))
        /\ XorRoundsRun = 0 => dec.data = dec.orig

\* C6's case: the second opcode-1 round has run on a region of two words
\* with a key that is not 0
C6_Witness ==
    /\ TwoXorRounds(dec.routine)
    /\ XorRoundsRun = 2
    /\ Len(dec.orig) = 8
    /\ XorKey(dec.routine) # [n \in 0..31 |-> 0]
    /\ dec.data = dec.orig

\* C10: a round of opcode 2 on a region of n whole words w with stage key K
\* leaves out[0] = w[0] XOR K and out[k] = w[k] XOR w[k-1], w being the
\* words as they were before the round.
C10_ChainedXorUsesCipherWords ==
    [][ (dec'.i = dec.i - 1 /\ RoundOp(dec.routine, dec.i) = 2
            /\ Len(dec.data) % 4 = 0)
        => /\ dec'.err = ""
           /\ Len(dec'.data) = Len(dec.data)
           /\ \A w \in 0..((Len(dec.data) \div 4) - 1) :
                 UnpackFrom(dec'.data, 4 * w) =
                     Xor32(UnpackFrom(dec.data, 4 * w),
                           IF w = 0 THEN RoundKey(dec.routine, dec.i)
                           ELSE UnpackFrom(dec.data, 4 * (w - 1))) ]_vars

\* C10's case: the round that just ran had opcode 2, on two whole words
C10_Witness ==
    /\ dec.err = ""
    /\ dec.i < 7
    /\ RoundOp(dec.routine, dec.i + 1) = 2
    /\ Len(dec.data) = 8
    /\ UnpackFrom(dec.orig, 0) # UnpackFrom(dec.orig, 4)

\* a decoder about to take a match token whose two bytes are in its input
AtMatch ==
    /\ lz.kind \in {"reader", "coroutine"}
    /\ lz.status = "run"
    /\ lz.bit < 8
    /\ ~CtlBit(lz.ctl, lz.bit)
    /\ lz.ipos + 2 <= Len(lz.input)
    /\ lz.kind = "reader" => lz.dst < Len(lz.output) /\ lz.remaining >= 2
    /\ lz.kind = "coroutine" => lz.left = 0

\* what a decoder has produced so far
Produced(st) ==
    IF st.kind = "reader" THEN SubSeq(st.output, 1, st.dst) ELSE st.buffer

\* the bytes a match of count bytes at history position off emits, given
\* the frame and the write cursor wp before it: byte k is the frame's byte
\* at off + k, unless the match itself wrote that position, k - dist bytes
\* earlier
MatchBytes(emitted, frame, off, wp, count) ==
    LET gap  == (wp - off) % frame_size
        dist == IF gap = 0 THEN frame_size ELSE gap
    IN  \A k \in 0..(count - 1) :
            emitted[k + 1] = IF k < dist THEN FrameGet(frame, (off + k) % frame_size)
                             ELSE emitted[k + 1 - dist]

\* three literals, then a match of 5 bytes at offset 0
ExampleStream == SubSeq(ThreeLiteralsMatch5, 1, 6)

\* C9: a match token (lo, hi) taken whole emits 3 + (hi & 0x0F) bytes from
\* history position ((hi & 0xF0) << 4) | lo, byte by byte modulo 4096, each
\* byte stored at the write cursor before the next is read, so that a match
\* overlapping the cursor re-reads what it wrote (the reader emits only
\* the bytes its output still has room for); and three literals followed by
\* a match of 5 at offset 0 give the literals followed by five zero bytes.
C9_MatchCopiesThroughHistory ==
    /\ [][ (AtMatch /\ lz'.status # "error"
               /\ (lz.kind = "coroutine" => lz'.left = 0))
           => LET lo      == lz.input[lz.ipos + 1]
                  hi      == lz.input[lz.ipos + 2]
                  count   == 3 + (hi % 16)
                  off     == ((hi \div 16) * 16) * 16 + lo
                  wp      == lz.frame_pos % frame_size
                  before  == Len(Produced(lz))
                  emitted == SubSeq(Produced(lz'), before + 1, Len(Produced(lz')))
                  room    == Len(lz.output) - lz.dst
              IN  /\ SubSeq(Produced(lz'), 1, before) = Produced(lz)
                  /\ Len(emitted) = IF lz.kind = "reader" /\ room < count
                                    THEN room ELSE count
                  /\ MatchBytes(emitted, lz.frame, off, wp, Len(emitted))
                  /\ \A k \in 0..(Len(emitted) - 1) :
                        FrameGet(lz'.frame, (wp + k) % frame_size) = emitted[k + 1]
         ]_vars
    /\ [](  /\ (lz.kind = "coroutine" /\ lz.input = ExampleStream
                    /\ lz.status = "returned")
                => lz.buffer = <<65, 66, 67, 0, 0, 0, 0, 0>>
            /\ (lz.kind = "reader" /\ lz.input = ExampleStream
                    /\ Len(lz.output) = 8 /\ lz.status = "done")
                => lz.dst = 8 /\ lz.output = <<65, 66, 67, 0, 0, 0, 0, 0>> )

\* C9's case: the coroutine took the match of SelfOverlap, 7 bytes from the
\* position of the literal written just before it, and emitted that literal
\* 7 times
C9_Witness ==
    /\ lz.kind = "coroutine"
    /\ lz.input = SelfOverlap
    /\ lz.status = "returned"
    /\ lz.buffer = <<65, 65, 65, 65, 65, 65, 65, 65>>

-----------------------------------------------------------------------------
(* Spec: main() on every file of Files: open, then extract entry by entry *)

Init ==
    /\ file \in Files
    /\ pc = "start"
    /\ key = <<>>
    /\ entries = <<>>
    /\ reads = <<>>
    /\ stderr = <<>>
    /\ next_entry = 0
    /\ sink = <<>>
    /\ dec = DecIdle
    /\ lz = LzIdle

Next ==
    \/ Open
    \/ ExtractScript
    \/ ExtractRegular
    \/ ExtractDone

Spec == Init /\ [][Next]_vars

\* both halves of the magic are in place
HasMagic(f) == FileRead(f, 0, 4) = SIGNATURE /\ FileRead(f, 4, 4) = SIGNATURE2

\* the entry count as the last 4 bytes of the file store it
FooterCount(f) == U32(FileRead(f, Len(f) - 4, 4), 0)

\* C1: open() on a container whose trailing entry count is above 10,000
\* fails with an empty catalogue, having read nothing but the two halves of
\* the magic and the count itself (no key material, no index), and without
\* raising; a count of exactly 10,000 passes the check: open() goes on to
\* seek the key material, which in a file too short for 10,000 slots raises
\* the error open() prints.
C1_OversizedCountRefusedBeforeIndex ==
    (pc # "start" /\ HasMagic(file)) =>
        /\ FooterCount(file) > 10000 =>
              /\ pc = "failed"
              /\ entries = <<>>
              /\ key = <<>>
              /\ reads = << <<0, 4>>, <<4, 4>>, <<Len(file) - 4, 4>> >>
              /\ stderr = <<>>
        /\ FooterCount(file) = 10000 =>
              \/ Len(reads) > 3
              \/ stderr = << <<"Error opening archive", "OSError">> >>

\* a container with its key material and one slot, whose count says 10,001
C1_Witness ==
    /\ pc = "failed"
    /\ HasMagic(file)
    /\ Len(file) = FileSize(1)
    /\ FooterCount(file) = 10001
    /\ Len(reads) = 3

\* C2: extract() attempts every entry of the catalogue exactly once and in
\* index order, whatever the entries before it did: the k-th thing it does
\* is entry k, and it is done only when every entry has been attempted.
C2_EveryEntryAttemptedOnceInOrder ==
    /\ pc \in {"opened", "done"} =>
          /\ Len(sink) = next_entry - 1
          /\ Len(sink) <= Len(entries)
          /\ \A k \in 1..Len(sink) :
                /\ sink[k].index = k
                /\ sink[k].name = entries[k].name
    /\ pc = "done" => Len(sink) = Len(entries)

\* a run over two entries whose first raised and whose second was written
C2_Witness ==
    /\ pc = "done"
    /\ Len(sink) = 2
    /\ sink[1].err # ""
    /\ sink[2].err = ""
    /\ sink[2].data # <<>>
    /\ Len(stderr) = 1

\* the decrypted slot of entry k, read again from the file
SlotOf(k) ==
    decrypt(FileRead(file, Len(file) - 4 - 96 * Len(entries) + 96 * (k - 1), 96),
            0, 96, key).data

\* C8: every entry open() produced out of a slot whose frame size (the u16
\* at 0x40) is not 0 has lzss_init_pos = (frame size - the u16 at 0x42) mod
\* frame size, which lies in 0 .. frame size - 1; and every entry has
\* is_packed = (unpacked_size # size).
C8_InitPosInvertedAndPackedDerived ==
    pc = "opened" =>
        \A k \in 1..Len(entries) :
            LET slot  == SlotOf(k)
                entry == entries[k]
            IN  /\ entry.lzss_frame_size = UnpackFrom16(slot, 64)
                /\ entry.lzss_frame_size # 0 =>
                      /\ entry.lzss_init_pos =
                            (entry.lzss_frame_size - UnpackFrom16(slot, 66))
                                % entry.lzss_frame_size
                      /\ entry.lzss_init_pos >= 0
                      /\ entry.lzss_init_pos < entry.lzss_frame_size
                /\ entry.is_packed = (entry.unpacked_size # entry.size)
                /\ entry.size = U32(slot, 76)
                /\ entry.unpacked_size = U32(slot, 80)

\* a slot of frame size 0x1000 storing 0x1012: the entry starts at 0xFEE
C8_Witness ==
    /\ pc = "opened"
    /\ \E k \in 1..Len(entries) :
          /\ UnpackFrom16(SlotOf(k), 64) = 4096
          /\ UnpackFrom16(SlotOf(k), 66) = 4114
          /\ entries[k].lzss_init_pos = 4078
          /\ entries[k].is_packed

\* the decrypted 12-byte header of the script record of entry k, read again
\* from the file
HeaderOf(k) == decrypt(FileRead(file, entries[k].offset, 12), 0, 12, key).data

\* headerPackedSize and headerRawSize: the dwords at 0 and 4 of the header
HeaderPackedSize(k) == U32(HeaderOf(k), 0)

HeaderRawSize(k) == U32(HeaderOf(k), 4)

\* the decode of the first headerPackedSize stored bytes after the header
Segment1(k) ==
    decompress(FileRead(file, entries[k].offset + 12, HeaderPackedSize(k)))

\* the decode of the remaining storedSize - headerPackedSize stored bytes
Segment2(k) ==
    decompress(FileRead(file, entries[k].offset + 12 + HeaderPackedSize(k),
                        entries[k].size - HeaderPackedSize(k)))

\* entry k has been extracted and is a split script record: subtype 3, a
\* frame size, a whole header with 0 < headerRawSize < rawSize, and two
\* segments at least as long as the sizes ask
SplitCase(k) ==
    /\ k <= Len(sink)
    /\ entries[k].sub_type = 3
    /\ entries[k].lzss_frame_size # 0
    /\ Len(HeaderOf(k)) = 12
    /\ 0 < HeaderRawSize(k)
    /\ HeaderRawSize(k) < entries[k].unpacked_size
    /\ HeaderPackedSize(k) <= entries[k].size
    /\ Len(Segment2(k)) >= entries[k].unpacked_size - HeaderRawSize(k)
    /\ Len(Segment1(k)) >= HeaderRawSize(k)

\* What extract() writes for a split script record: segment2[0 : rawSize -
\* headerRawSize] followed by the entire segment1, of length (rawSize -
\* headerRawSize) + len(segment1).
SplitScriptIsTailPrefixThenHead ==
    \A k \in 1..Len(entries) :
        SplitCase(k) =>
            /\ sink[k].err = ""
            /\ sink[k].data =
                  Slice(Segment2(k), 0, entries[k].unpacked_size - HeaderRawSize(k))
                  \o Segment1(k)
            /\ Len(sink[k].data) =
                  entries[k].unpacked_size - HeaderRawSize(k) + Len(Segment1(k))

\* C4: the output of a split script record is segment2[0 :
\* rawSize - headerRawSize] followed by the entire segment1, and its length
\* is exactly rawSize.
C4_SplitScriptLengthIsRawSize ==
    \A k \in 1..Len(entries) :
        SplitCase(k) =>
            /\ sink[k].data =
                  Slice(Segment2(k), 0, entries[k].unpacked_size - HeaderRawSize(k))
                  \o Segment1(k)
            /\ Len(sink[k].data) = entries[k].unpacked_size

\* C7: an extracted entry whose subtype is not 3 has the size bytes found at
\* its offset as output when it is not packed, and otherwise their
\* sliding-window decode cut at unpacked_size, so never more than
\* unpacked_size bytes.
C7_RegularOutputBoundedByRawSize ==
    \A k \in 1..Len(sink) :
        entries[k].sub_type # 3 =>
            /\ sink[k].err = ""
            /\ ~entries[k].is_packed =>
                  sink[k].data = FileRead(file, entries[k].offset, entries[k].size)
            /\ entries[k].is_packed =>
                  /\ Len(sink[k].data) <= entries[k].unpacked_size
                  /\ sink[k].data =
                        Slice(decompress(FileRead(file, entries[k].offset,
                                                  entries[k].size)),
                              0, entries[k].unpacked_size)

=============================================================================
